---------------------------- MODULE Spec2Model ----------------------------
(***************************************************************************)
(* Model of the emailing service: the Flask handlers of src/src/app.py and *)
(* the EmailService of src/src/sending_email.py, configured by             *)
(* src/src/config.py.                                                      *)
(*                                                                         *)
(* Every request is handled by one worker thread.  A thread's position    *)
(* (pc) moves through the handler, the facade (template rendering), and   *)
(* the steps of send_email: compose, connect, login, send_message and the *)
(* exit of the `with` block.  The outcome of every external step (template*)
(* rendering, SMTP connect / login / send / QUIT) is chosen by the        *)
(* environment.                                                            *)
(***************************************************************************)
EXTENDS Integers, Sequences, FiniteSets, TLC

\* Number of worker threads that may handle requests at the same time.
NumThreads == 2

Threads == 1..NumThreads

\* The thread used by the sequential specification.
MainThread == 1

-----------------------------------------------------------------------------
(* Python values that reach the code from a JSON body or a direct call.    *)
(* t is the Python type, s the payload of a str, l the items of a list.    *)

PyNone == [t |-> "none", s |-> "", l |-> <<>>]
PyStrOf(x) == [t |-> "str", s |-> x, l |-> <<>>]
PyListOf(x) == [t |-> "list", s |-> "", l |-> x]

\* A key that the JSON object does not have.
Absent == [t |-> "absent", s |-> "", l |-> <<>>]

\* bool(v): None, "" and [] are falsy, an int item is falsy when 0.
Truthy(v) ==
    CASE v.t = "none" -> FALSE
      [] v.t = "str" -> v.s # ""
      [] v.t = "list" -> Len(v.l) > 0
      [] OTHER -> FALSE

\* a and b
PyAnd(a, b) == IF Truthy(a) THEN b ELSE a

\* all(v) raises TypeError when v is not iterable (None).
AllRaises(v) == v.t = "none"

\* all(v) for an iterable v: every character of a str is a non-empty str,
\* hence truthy (all("") is True); an int item is truthy when non-zero.
AllValue(v) ==
    CASE v.t = "str" -> TRUE
      [] v.t = "list" -> \A i \in 1..Len(v.l) : v.l[i] # 0
      [] OTHER -> FALSE

DigitStr(n) ==
    CASE n = 0 -> "0" [] n = 1 -> "1" [] n = 2 -> "2" [] n = 3 -> "3"
      [] n = 4 -> "4" [] n = 5 -> "5" [] n = 6 -> "6" [] n = 7 -> "7"
      [] n = 8 -> "8" [] OTHER -> "9"

RECURSIVE JoinItems(_)
JoinItems(l) ==
    IF Len(l) = 0 THEN ""
    ELSE IF Len(l) = 1 THEN DigitStr(l[1])
    ELSE DigitStr(l[1]) \o ", " \o JoinItems(Tail(l))

\* str(v), as an f-string formats v.
PyFormat(v) ==
    CASE v.t = "none" -> "None"
      [] v.t = "str" -> v.s
      [] v.t = "list" -> "[" \o JoinItems(v.l) \o "]"
      [] OTHER -> ""

\* data.get(key): None when the key is absent.
DictGet(data, key) == IF data[key] = Absent THEN PyNone ELSE data[key]

\* data.get(key, default)
DictGetDefault(data, key, default) ==
    IF data[key] = Absent THEN default ELSE data[key]

-----------------------------------------------------------------------------
(* Configuration (config.py) as read by EmailService.__init__.             *)

MAIL_SERVER == "smtp.gmail.com"
MAIL_PORT == 465
ADMIN_EMAIL == "admin@cn.org"
ADMIN_PASSWORD == "app-password"
PASSWORD_RESET_URL_BASE == "https://yourapp.com/reset"


\* The SMTP endpoint and credentials held by the EmailService instance.
ServiceConfig ==
    [smtp_server |-> MAIL_SERVER, smtp_port |-> MAIL_PORT,
     admin_email |-> ADMIN_EMAIL, admin_password |-> ADMIN_PASSWORD]

-----------------------------------------------------------------------------
(* Handler logic of app.py as pure operators.                              *)

\* A response body key that is not present.
NoField == "(absent)"
NoToken == ""

\* jsonify({...}), code
OkResponse(message, token) ==
    [code |-> 200,
     body |-> [status |-> "sent", message |-> message,
               token |-> token, error |-> NoField]]

ErrorResponse(code, error) ==
    [code |-> code,
     body |-> [status |-> NoField, message |-> NoField,
               token |-> NoField, error |-> error]]

NoResp ==
    [code |-> 0,
     body |-> [status |-> NoField, message |-> NoField,
               token |-> NoField, error |-> NoField]]

\* Variant of ResetFieldsMissing that tests `is None` instead of truthiness.
ResetFieldsMissing_noneOnly(email, username) ==
    email = PyNone \/ username = PyNone

\* `if not email or not username` of both reset handlers.
ResetFieldsMissing(email, username) == ~Truthy(email) \/ ~Truthy(username)

\* `if not all(to_email and subject and html_content)` of send_custom_email:
\* "raise" when all() raises TypeError, "reject" when the 400 branch is
\* taken, "pass" when the handler goes on to send.
CustomCheck(to_email, subject, html_content) ==
    LET v == PyAnd(PyAnd(to_email, subject), html_content)
    IN  IF AllRaises(v) THEN "raise"
        ELSE IF ~AllValue(v) THEN "reject"
        ELSE "pass"

\* Variant of ResetUrl with the two query values swapped.
ResetUrl_swapped(base, token, username) ==
    base \o "?token=" \o PyFormat(username) \o "&username=" \o token

\* f"{Config.PASSWORD_RESET_URL_BASE}?token={reset_token}&username={username}"
ResetUrl(base, token, username) ==
    base \o "?token=" \o token \o "&username=" \o PyFormat(username)

\* The message of the 200 response and of the 500 response of an endpoint.
SentMessage(ep) ==
    CASE ep = "reset" -> "Password reset email sent successfully"
      [] ep = "success" -> "Success email sent"
      [] ep = "custom" -> "Email sent successfully"
      [] OTHER -> "Test email sent"

FailedMessage(ep) ==
    CASE ep = "reset" -> "Failed to send email"
      [] ep = "success" -> "Failed to send success email"
      [] ep = "custom" -> "Failed to send email"
      [] OTHER -> "Failed to send test email"

\* Variant of SendResponse that reports the SMTP error to the client.
SendResponse_leaky(ep, success, token, detail) ==
    IF success
    THEN OkResponse(SentMessage(ep), IF ep = "reset" THEN token ELSE NoField)
    ELSE ErrorResponse(500, detail)

\* `if success: ... 200 else: ... 500` of the four handlers; only the
\* password-reset handler puts the token in the 200 body.  detail is the
\* error send_email printed, which the handler never sees.
SendResponse(ep, success, token, detail) ==
    IF success
    THEN OkResponse(SentMessage(ep), IF ep = "reset" THEN token ELSE NoField)
    ELSE ErrorResponse(500, FailedMessage(ep))

\* Variant of HandlerExcept that answers 400 for every error.
HandlerExcept_badRequest(error) == ErrorResponse(400, error)

\* `except Exception as e: return jsonify({'error': str(e)}), 500` of the
\* four handlers.
HandlerExcept(error) == ErrorResponse(500, error)

\* str(e) of the AttributeError raised by data.get on a non-object body.
NotObjectError(kind) ==
    IF kind = "list" THEN "'list' object has no attribute 'get'"
    ELSE "'NoneType' object has no attribute 'get'"

AllTypeError == "'NoneType' object is not iterable"

TEST_SUBJECT == "Test Email - Computer Networks Program"
TEST_HTML == "<h1>Test Email</h1><p>This is a test email from the email service.</p>"
TEST_TEXT == "Test Email\n\nThis is a test email from the email service."

-----------------------------------------------------------------------------
(* EmailService (sending_email.py) as pure operators.                      *)

RESET_SUBJECT == "Password Reset - Computer Networks Program"
SUCCESS_SUBJECT == "Password Reset Successful - Computer Networks Program"
RESET_TEMPLATE == "password_reset.html"
SUCCESS_TEMPLATE == "password_reset_success.html"

\* display_name = user_name or username
DisplayName(user_name, username) == IF Truthy(user_name) THEN user_name ELSE username

\* template.render(...) of password_reset.html: the template file is not part
\* of the sources, so the page is represented by its name and its variables.
RenderReset(display_name, username, reset_url) ==
    "<" \o RESET_TEMPLATE \o " user_name=" \o PyFormat(display_name)
        \o " username=" \o PyFormat(username)
        \o " reset_url=" \o reset_url \o " expiration_minutes=60>"

RenderSuccess(username) ==
    "<" \o SUCCESS_TEMPLATE \o " username=" \o PyFormat(username) \o ">"

\* The plain-text fallback of send_password_reset_email: the f-string of
\* lines 173-186, with its line breaks and its indentation of 8 spaces.
ResetText(display_name, reset_url) ==
    "\n        Hello " \o PyFormat(display_name) \o ",\n"
    \o "        \n"
    \o "        You requested a password reset for your Computer Networks program account.\n"
    \o "        \n"
    \o "        Please visit this link to reset your password:\n"
    \o "        " \o reset_url \o "\n"
    \o "        \n"
    \o "        This link will expire in 60 minutes for security purposes.\n"
    \o "        \n"
    \o "        If you didn't request this password reset, you can safely ignore this email.\n"
    \o "        \n"
    \o "        - Computer Networks Program Team\n"
    \o "        "

\* The plain-text fallback of send_password_reset_success_email: the
\* f-string of lines 224-232.
SuccessText(username) ==
    "\n        Hello " \o PyFormat(username) \o ",\n"
    \o "        \n"
    \o "        Your password has been successfully reset for the Computer Networks program.\n"
    \o "        \n"
    \o "        If you did not make this change, please contact support immediately.\n"
    \o "        \n"
    \o "        - Computer Networks Program Team\n"
    \o "        "

\* MIMEText(content, subtype) raises AttributeError unless content is a str.
MimeTextRaises(content) == content.t # "str"

\* The composition of send_email raises when a MIMEText it builds raises.
ComposeRaises(html_content, text_content) ==
    \/ Truthy(text_content) /\ MimeTextRaises(text_content)
    \/ MimeTextRaises(html_content)

\* Variant of ComposeParts that attaches the HTML part first.
ComposeParts_htmlFirst(html_content, text_content) ==
    << [subtype |-> "html", content |-> html_content.s] >>
    \o (IF Truthy(text_content)
        THEN << [subtype |-> "plain", content |-> text_content.s] >>
        ELSE << >>)

\* The parts attached to the multipart/alternative message, in order.
ComposeParts(html_content, text_content) ==
    (IF Truthy(text_content)
     THEN << [subtype |-> "plain", content |-> text_content.s] >>
     ELSE << >>)
    \o << [subtype |-> "html", content |-> html_content.s] >>

ComposeMsg(admin_email, to_email, subject, html_content, text_content) ==
    [Subject |-> subject, From |-> admin_email, To |-> to_email,
     parts |-> ComposeParts(html_content, text_content)]

NoMsg == [Subject |-> PyNone, From |-> "", To |-> PyNone, parts |-> << >>]

\* str(e) of the errors of the SMTP steps.
COMPOSE_ERROR == "'NoneType' object has no attribute 'encode'"
COMPOSE_LIST_ERROR == "'list' object has no attribute 'encode'"
CONNECT_ERROR == "[Errno 111] Connection refused"
LOGIN_ERROR == "(535, b'Username and Password not accepted')"
SEND_ERROR == "(550, b'Recipient rejected')"
\* str(SMTPRecipientsRefused({})): the message names no recipient.
NO_RECIPIENT_ERROR == "{}"
QUIT_ERROR == "(421, b'Service shutting down')"

SmtpErrorDetails ==
    {COMPOSE_ERROR, COMPOSE_LIST_ERROR, CONNECT_ERROR, LOGIN_ERROR,
     SEND_ERROR, NO_RECIPIENT_ERROR, QUIT_ERROR}


-----------------------------------------------------------------------------
(* Inputs.                                                                 *)

\* secrets.token_urlsafe(32): the tokens the generator may return; it never
\* returns a token that a request still holds.
Tokens == {"tok-Drmhze6E", "tok-81Bj-nA"}

EmptyData ==
    [email |-> Absent, username |-> Absent, user_name |-> Absent,
     to_email |-> Absent, subject |-> Absent, html_content |-> Absent,
     text_content |-> Absent, reset_url |-> Absent]

Request(ep, kind, data) == [ep |-> ep, kind |-> kind, data |-> data]

NoRequest == Request("none", "none", EmptyData)

Endpoints == {"reset", "success", "custom", "test"}

\* Bodies that are valid JSON but not an object.
NotObjectRequests ==
    { Request(ep, kind, EmptyData) : ep \in Endpoints, kind \in {"list", "null"} }

AddressValues == {Absent, PyNone, PyStrOf(""), PyStrOf("a@b.org")}
UsernameValues == {Absent, PyNone, PyStrOf(""), PyStrOf("jdoe"), PyStrOf("ann")}

ResetRequests ==
    { Request("reset", "object",
              [EmptyData EXCEPT !.email = e, !.username = u, !.user_name = n]) :
        e \in AddressValues, u \in UsernameValues,
        n \in {Absent, PyStrOf(""), PyStrOf("John Doe")} }

SuccessRequests ==
    { Request("success", "object",
              [EmptyData EXCEPT !.email = e, !.username = u]) :
        e \in AddressValues, u \in UsernameValues }

CustomRequests ==
    { Request("custom", "object",
              [EmptyData EXCEPT !.to_email = e, !.subject = s, !.html_content = h]) :
        e \in AddressValues,
        s \in {Absent, PyStrOf(""), PyStrOf("Hi")},
        h \in {Absent, PyNone, PyStrOf(""), PyStrOf("<p>x</p>"),
               PyListOf(<<0>>), PyListOf(<<1>>)} }

TestRequests ==
    { Request("test", "object", [EmptyData EXCEPT !.email = e]) :
        e \in AddressValues }

\* Direct calls email_service.send_email(to_email, subject, html_content,
\* text_content) by an importing module; text_content defaults to None.
DirectCalls ==
    { Request("call", "args",
              [EmptyData EXCEPT !.to_email = PyStrOf("c@d.org"),
                                !.subject = PyStrOf("Hi"),
                                !.html_content = h, !.text_content = t]) :
        h \in {PyNone, PyStrOf(""), PyStrOf("<p>x</p>")},
        t \in {Absent, PyNone, PyStrOf(""), PyStrOf("x"), PyListOf(<<1>>)} }

\* Direct calls email_service.send_password_reset_email(to_email, username,
\* reset_url, user_name) ("call_reset") and
\* email_service.send_password_reset_success_email(to_email, username)
\* ("call_success") by an importing module: no handler validates them.
DirectFacadeCalls ==
    { Request("call_reset", "args",
              [EmptyData EXCEPT
                  !.to_email = e, !.username = u, !.user_name = n,
                  !.reset_url = PyStrOf("https://yourapp.com/reset?token=T&username=jdoe")]) :
        e \in {PyStrOf(""), PyStrOf("c@d.org")},
        u \in {PyNone, PyStrOf("jdoe")},
        n \in {Absent, PyStrOf("John Doe")} }
    \cup
    { Request("call_success", "args",
              [EmptyData EXCEPT !.to_email = e, !.username = u]) :
        e \in {PyStrOf(""), PyStrOf("c@d.org")},
        u \in {PyNone, PyStrOf("jdoe")} }

Requests ==
    NotObjectRequests \cup ResetRequests \cup SuccessRequests
        \cup CustomRequests \cup TestRequests \cup DirectCalls
        \cup DirectFacadeCalls

\* The requests of the concurrent specification: one of each operation; the
\* ones that reach the SMTP server are a custom email and a direct
\* password-reset email, the others end in validation or composition.
ConcRequests ==
    { Request("reset", "object",
              [EmptyData EXCEPT !.email = PyStrOf("a@b.org")]),
      Request("success", "object",
              [EmptyData EXCEPT !.email = PyStrOf("a@b.org")]),
      Request("custom", "object",
              [EmptyData EXCEPT !.to_email = PyStrOf("c@d.org"),
                                !.subject = PyStrOf("Hi"),
                                !.html_content = PyStrOf("<p>x</p>")]),
      Request("test", "null", EmptyData),
      Request("call", "args",
              [EmptyData EXCEPT !.to_email = PyStrOf("c@d.org"),
                                !.subject = PyStrOf("Hi"),
                                !.html_content = PyNone]),
      Request("call_reset", "args",
              [EmptyData EXCEPT
                  !.to_email = PyStrOf("c@d.org"), !.username = PyStrOf("jdoe"),
                  !.reset_url = PyStrOf("https://yourapp.com/reset?token=T&username=jdoe")]) }

-----------------------------------------------------------------------------
(* State.                                                                  *)

VARIABLES
    pc,      \* pc[r]: where thread r is
    req,     \* req[r]: the request (or direct call) thread r is handling
    local,   \* local[r]: the local variables of the handler and the service
    msg,     \* msg[r]: the MIME message send_email built
    server,  \* server[r]: the connection bound by the `with` of send_email
    conns,   \* the SMTP connections, as the mail server sees them
    stage,   \* stage[r]: what the request did so far, step by step
    ret,     \* ret[r]: what the Email Service operation returned
    exc,     \* exc[r]: str(e) of the exception the handler caught
    resp,    \* resp[r]: the HTTP response of the request
    service  \* the attributes of the shared email_service instance

vars == <<pc, req, local, msg, server, conns, stage, ret, exc, resp, service>>

ConnIds == Threads
NoConn == 0

FreeConn ==
    [state |-> "free", opener |-> 0, host |-> "", port |-> 0,
     user |-> "", authed |-> FALSE, carried |-> << >>]

NoLocal ==
    [token |-> NoToken, reset_url |-> "", username |-> PyNone,
     user_name |-> PyNone, to_email |-> PyNone, subject |-> PyNone,
     html_content |-> PyNone, text_content |-> PyNone]

NoStage ==
    [tokens |-> 0, render |-> "none", entered |-> FALSE, composed |-> FALSE,
     connect |-> "none", login |-> "none", send |-> "none", quit |-> "none",
     nconnect |-> 0, nlogin |-> 0, nsend |-> 0, pending |-> "", detail |-> ""]

Init ==
    /\ pc = [r \in Threads |-> "idle"]
    /\ req = [r \in Threads |-> NoRequest]
    /\ local = [r \in Threads |-> NoLocal]
    /\ msg = [r \in Threads |-> NoMsg]
    /\ server = [r \in Threads |-> NoConn]
    /\ conns = [c \in ConnIds |-> FreeConn]
    /\ stage = [r \in Threads |-> NoStage]
    /\ ret = [r \in Threads |-> "none"]
    /\ exc = [r \in Threads |-> ""]
    /\ resp = [r \in Threads |-> NoResp]
    /\ service = ServiceConfig


-----------------------------------------------------------------------------
(* The handlers of app.py, up to their call of the Email Service.          *)

\* A thread takes a request: everything of its previous request is dropped.
Accept(r, q) ==
    /\ pc[r] = "idle"
    /\ req' = [req EXCEPT ![r] = q]
    /\ msg' = [msg EXCEPT ![r] = NoMsg]
    /\ server' = [server EXCEPT ![r] = NoConn]
    /\ conns' = [c \in ConnIds |->
                    IF conns[c].opener = r THEN FreeConn ELSE conns[c]]
    /\ ret' = [ret EXCEPT ![r] = "none"]
    /\ UNCHANGED service

\* The handler returns a response without calling the Email Service.
Answer(r, response, error) ==
    /\ pc' = [pc EXCEPT ![r] = "idle"]
    /\ local' = [local EXCEPT ![r] = NoLocal]
    /\ stage' = [stage EXCEPT ![r] = NoStage]
    /\ exc' = [exc EXCEPT ![r] = error]
    /\ resp' = [resp EXCEPT ![r] = response]

\* The handler calls the Email Service with the locals l.
CallService(r, target, l, st) ==
    /\ pc' = [pc EXCEPT ![r] = target]
    /\ local' = [local EXCEPT ![r] = l]
    /\ stage' = [stage EXCEPT ![r] = st]
    /\ exc' = [exc EXCEPT ![r] = ""]
    /\ resp' = [resp EXCEPT ![r] = NoResp]

\* POST /api/email/send-password-reset
SendPasswordReset(r, q, tok) ==
    /\ q.ep = "reset"
    /\ \A t \in Threads : local[t].token # tok
    /\ Accept(r, q)
    /\ IF q.kind # "object"
       THEN Answer(r, HandlerExcept(NotObjectError(q.kind)),
                   NotObjectError(q.kind))
       ELSE LET email == DictGet(q.data, "email")
                username == DictGet(q.data, "username")
                user_name == DictGet(q.data, "user_name")
            IN  IF ResetFieldsMissing(email, username)
                THEN Answer(r, ErrorResponse(400, "email and username are required"), "")
                ELSE CallService(r, "facade",
                        [NoLocal EXCEPT
                            !.token = tok,
                            !.reset_url = ResetUrl(PASSWORD_RESET_URL_BASE, tok, username),
                            !.to_email = email,
                            !.username = username,
                            !.user_name = user_name],
                        [NoStage EXCEPT !.tokens = 1])

\* POST /api/email/send-reset-success
SendResetSuccess(r, q) ==
    /\ q.ep = "success"
    /\ Accept(r, q)
    /\ IF q.kind # "object"
       THEN Answer(r, HandlerExcept(NotObjectError(q.kind)),
                   NotObjectError(q.kind))
       ELSE LET email == DictGet(q.data, "email")
                username == DictGet(q.data, "username")
            IN  IF ResetFieldsMissing(email, username)
                THEN Answer(r, ErrorResponse(400, "email and username are required"), "")
                ELSE CallService(r, "facade",
                        [NoLocal EXCEPT !.to_email = email, !.username = username],
                        NoStage)

\* POST /api/email/send-custom-email
SendCustomEmail(r, q) ==
    /\ q.ep = "custom"
    /\ Accept(r, q)
    /\ IF q.kind # "object"
       THEN Answer(r, HandlerExcept(NotObjectError(q.kind)),
                   NotObjectError(q.kind))
       ELSE LET to_email == DictGet(q.data, "to_email")
                subject == DictGet(q.data, "subject")
                html_content == DictGet(q.data, "html_content")
                check == CustomCheck(to_email, subject, html_content)
            IN  CASE check = "raise" ->
                        Answer(r, HandlerExcept(AllTypeError), AllTypeError)
                  [] check = "reject" ->
                        Answer(r, ErrorResponse(400,
                            "to_email, subject, and html_content are required"), "")
                  [] OTHER ->
                        CallService(r, "compose",
                            [NoLocal EXCEPT !.to_email = to_email,
                                            !.subject = subject,
                                            !.html_content = html_content],
                            [NoStage EXCEPT !.entered = TRUE])

\* POST /api/email/test
TestEmail(r, q) ==
    /\ q.ep = "test"
    /\ Accept(r, q)
    /\ IF q.kind # "object"
       THEN Answer(r, HandlerExcept(NotObjectError(q.kind)),
                   NotObjectError(q.kind))
       ELSE CallService(r, "compose",
                [NoLocal EXCEPT
                    !.to_email = DictGetDefault(q.data, "email", PyStrOf("test@example.com")),
                    !.subject = PyStrOf(TEST_SUBJECT),
                    !.html_content = PyStrOf(TEST_HTML),
                    !.text_content = PyStrOf(TEST_TEXT)],
                [NoStage EXCEPT !.entered = TRUE])

\* email_service.send_email(...) called directly, outside any handler.
DirectSendEmail(r, q) ==
    /\ q.ep = "call"
    /\ Accept(r, q)
    /\ CallService(r, "compose",
            [NoLocal EXCEPT !.to_email = DictGet(q.data, "to_email"),
                            !.subject = DictGet(q.data, "subject"),
                            !.html_content = DictGet(q.data, "html_content"),
                            !.text_content = DictGet(q.data, "text_content")],
            [NoStage EXCEPT !.entered = TRUE])

-----------------------------------------------------------------------------
(* The Email Service: facade operations and the steps of send_email.       *)

\* The operations of email_service an importing module calls directly.
DirectOps == {"call", "call_reset", "call_success"}

\* The requests that run send_password_reset_email.
IsResetOp(ep) == ep \in {"reset", "call_reset"}

\* email_service.send_password_reset_email(...) or
\* email_service.send_password_reset_success_email(...) called directly,
\* outside any handler; only send_password_reset_email has a
\* reset_url and a user_name.
DirectFacadeCall(r, q) ==
    /\ q.ep \in {"call_reset", "call_success"}
    /\ Accept(r, q)
    /\ CallService(r, "facade",
            [NoLocal EXCEPT
                !.to_email = DictGet(q.data, "to_email"),
                !.username = DictGet(q.data, "username"),
                !.user_name = IF q.ep = "call_reset"
                              THEN DictGet(q.data, "user_name")
                              ELSE NoLocal.user_name,
                !.reset_url = IF q.ep = "call_reset"
                              THEN PyFormat(DictGet(q.data, "reset_url"))
                              ELSE NoLocal.reset_url],
            NoStage)

\* Where control goes when an Email Service operation returns or raises:
\* back into the handler, or to the direct caller.
ReturnTo(r) == IF req[r].ep \in DirectOps THEN "idle" ELSE "respond"

\* What get_template and render may do: succeed, raise TemplateNotFound, or
\* raise UndefinedError for a variable the template uses.
RenderOutcomes == {"ok", "notfound", "undefined"}

UNDEFINED_ERROR == "'user' is undefined"

\* str(e) of the rendering error: the template name for TemplateNotFound,
\* jinja2's message for UndefinedError.
RenderError(ep, outcome) ==
    IF outcome = "undefined" THEN UNDEFINED_ERROR
    ELSE IF IsResetOp(ep) THEN RESET_TEMPLATE ELSE SUCCESS_TEMPLATE

\* Variant of RenderFailure in which the facade catches the rendering error
\* and returns False.
RenderFailure_caught(error) == [ret |-> "false", exc |-> ""]

\* A rendering error is not caught by the facade operation: it leaves the
\* operation as an exception, which the handler's `except` receives.
RenderFailure(error) == [ret |-> "raised", exc |-> error]

\* send_password_reset_email / send_password_reset_success_email up to their
\* call of send_email; outcome is what get_template and render do.
Facade(r, outcome) ==
    /\ pc[r] = "facade"
    /\ LET l == local[r]
           display_name == DisplayName(l.user_name, l.username)
           out == RenderFailure(RenderError(req[r].ep, outcome))
       IN  IF outcome = "ok"
           THEN /\ local' = [local EXCEPT ![r] =
                     IF IsResetOp(req[r].ep)
                     THEN [l EXCEPT
                             !.subject = PyStrOf(RESET_SUBJECT),
                             !.html_content = PyStrOf(
                                 RenderReset(display_name, l.username, l.reset_url)),
                             !.text_content = PyStrOf(
                                 ResetText(display_name, l.reset_url))]
                     ELSE [l EXCEPT
                             !.subject = PyStrOf(SUCCESS_SUBJECT),
                             !.html_content = PyStrOf(RenderSuccess(l.username)),
                             !.text_content = PyStrOf(SuccessText(l.username))]]
                /\ stage' = [stage EXCEPT ![r].render = "ok", ![r].entered = TRUE]
                /\ pc' = [pc EXCEPT ![r] = "compose"]
                /\ UNCHANGED <<ret, exc>>
           ELSE /\ stage' = [stage EXCEPT ![r].render = "fail"]
                /\ ret' = [ret EXCEPT ![r] = out.ret]
                /\ exc' = [exc EXCEPT ![r] = out.exc]
                /\ pc' = [pc EXCEPT ![r] = ReturnTo(r)]
                /\ UNCHANGED local
    /\ UNCHANGED <<req, msg, server, conns, resp, service>>

\* str(e) of the AttributeError MIMEText raises for a content that is no str.
ComposeError(html_content, text_content) ==
    LET bad == IF Truthy(text_content) /\ MimeTextRaises(text_content)
               THEN text_content ELSE html_content
    IN  IF bad.t = "list" THEN COMPOSE_LIST_ERROR ELSE COMPOSE_ERROR

\* send_email, lines 92-104: build the message.
Compose(r) ==
    /\ pc[r] = "compose"
    /\ LET l == local[r]
       IN  IF ComposeRaises(l.html_content, l.text_content)
           THEN /\ stage' = [stage EXCEPT ![r].detail =
                                ComposeError(l.html_content, l.text_content)]
                /\ ret' = [ret EXCEPT ![r] = "false"]
                /\ pc' = [pc EXCEPT ![r] = ReturnTo(r)]
                /\ UNCHANGED msg
           ELSE /\ msg' = [msg EXCEPT ![r] =
                             ComposeMsg(service.admin_email, l.to_email,
                                        l.subject, l.html_content, l.text_content)]
                /\ stage' = [stage EXCEPT ![r].composed = TRUE]
                /\ pc' = [pc EXCEPT ![r] = "connect"]
                /\ UNCHANGED ret
    /\ UNCHANGED <<req, local, server, conns, exc, resp, service>>

\* The connection a new SMTP_SSL object gets.
NewConnId == CHOOSE c \in ConnIds :
                /\ conns[c].state = "free"
                /\ \A d \in ConnIds : conns[d].state = "free" => c <= d

\* Variant of OnConnectError that tries to connect again.
OnConnectError_retry(r) == "connect"

\* Where send_email goes after SMTP_SSL(...) raised: its `except`, which
\* returns False.
OnConnectError(r) == ReturnTo(r)

\* Variant of ServiceAfterConnect that falls back to the STARTTLS port for
\* later calls once a connection was refused.
ServiceAfterConnect_fallback(svc, ok) ==
    IF ok THEN svc ELSE [svc EXCEPT !.smtp_port = 587]

\* The attributes of the service after SMTP_SSL(self.smtp_server,
\* self.smtp_port): they are read, never assigned.
ServiceAfterConnect(svc, ok) == svc

\* send_email, line 107: smtplib.SMTP_SSL(self.smtp_server, self.smtp_port)
Connect(r, ok) ==
    /\ pc[r] = "connect"
    /\ IF ok
       THEN /\ conns' = [conns EXCEPT ![NewConnId] =
                            [FreeConn EXCEPT !.state = "open", !.opener = r,
                                             !.host = service.smtp_server,
                                             !.port = service.smtp_port]]
            /\ server' = [server EXCEPT ![r] = NewConnId]
            /\ stage' = [stage EXCEPT ![r].connect = "ok",
                                      ![r].nconnect = @ + 1]
            /\ pc' = [pc EXCEPT ![r] = "login"]
            /\ UNCHANGED ret
       ELSE /\ stage' = [stage EXCEPT ![r].connect = "fail",
                                      ![r].nconnect = @ + 1,
                                      ![r].detail = CONNECT_ERROR]
            /\ ret' = [ret EXCEPT ![r] = "false"]
            /\ pc' = [pc EXCEPT ![r] = OnConnectError(r)]
            /\ UNCHANGED <<conns, server>>
    /\ service' = ServiceAfterConnect(service, ok)
    /\ UNCHANGED <<req, local, msg, exc, resp>>

\* Variant of OnLoginError in which a rejected login is swallowed and the
\* message is sent anyway.
OnLoginError_ignored == "send"

\* Where send_email goes after server.login raised: out of the `with` block.
OnLoginError == "exit"

\* send_email, line 108: server.login(self.admin_email, self.admin_password)
Login(r, ok) ==
    /\ pc[r] = "login"
    /\ IF ok
       THEN /\ conns' = [conns EXCEPT ![server[r]].authed = TRUE,
                                      ![server[r]].user = service.admin_email]
            /\ stage' = [stage EXCEPT ![r].login = "ok", ![r].nlogin = @ + 1]
            /\ pc' = [pc EXCEPT ![r] = "send"]
       ELSE /\ stage' = [stage EXCEPT ![r].login = "fail", ![r].nlogin = @ + 1,
                                      ![r].pending = LOGIN_ERROR]
            /\ pc' = [pc EXCEPT ![r] = OnLoginError]
            /\ UNCHANGED conns
    /\ UNCHANGED <<req, local, msg, server, ret, exc, resp, service>>

\* Variant of MsgToSend in which the message is kept in an attribute of the
\* shared email_service instead of a local variable.
MsgToSend_shared(r) == msg[CHOOSE t \in Threads : msg[t] # NoMsg]

\* The message send_email hands to server.send_message: its own local msg.
MsgToSend(r) == msg[r]

\* send_message takes the recipients from the To header: None and "" give
\* none.
HasRecipient(to) == to.t = "str" /\ to.s # ""

\* str(e) of a failing send_message: without a recipient it raises
\* SMTPRecipientsRefused({}) whatever the server answers.
SendError(to) == IF HasRecipient(to) THEN SEND_ERROR ELSE NO_RECIPIENT_ERROR

\* send_email, line 111: server.send_message(msg); ok is whether the server
\* accepts the message.
SendMessage(r, ok) ==
    /\ pc[r] = "send"
    /\ IF ok /\ HasRecipient(MsgToSend(r).To)
       THEN /\ conns' = [conns EXCEPT ![server[r]].carried =
                            Append(@, MsgToSend(r))]
            /\ stage' = [stage EXCEPT ![r].send = "ok", ![r].nsend = @ + 1]
       ELSE /\ stage' = [stage EXCEPT ![r].send = "fail", ![r].nsend = @ + 1,
                                      ![r].pending =
                                          SendError(MsgToSend(r).To)]
            /\ UNCHANGED conns
    /\ pc' = [pc EXCEPT ![r] = "exit"]
    /\ UNCHANGED <<req, local, msg, server, ret, exc, resp, service>>

\* Variant of ConnAfterExit that closes only when the block did not raise
\* (an explicit server.quit() as last statement instead of `with`).
ConnAfterExit_noFinally(conn, raised) ==
    IF raised THEN conn ELSE [conn EXCEPT !.state = "closed"]

\* SMTP.__exit__ of the `with` block: QUIT, then close() in a `finally`,
\* whether or not the block raised.
ConnAfterExit(conn, raised) == [conn EXCEPT !.state = "closed"]

\* What send_email returns once the `with` block is left: quit is the
\* server's answer to QUIT ("ok": 221, "disc": it had disconnected, which
\* __exit__ ignores, "err": another reply, which __exit__ raises);
\* pending is the error raised inside the block ("" when none).
ExitResult(pending, quit) ==
    IF quit = "err" THEN [ret |-> "false", detail |-> QUIT_ERROR]
    ELSE IF pending # "" THEN [ret |-> "false", detail |-> pending]
    ELSE [ret |-> "true", detail |-> ""]

\* send_email, lines 107-121: leaving the `with` block, then `return True`
\* or the `except` that prints the error and returns False.
WithExit(r, quit) ==
    /\ pc[r] = "exit"
    /\ LET out == ExitResult(stage[r].pending, quit)
       IN  /\ conns' = [conns EXCEPT ![server[r]] =
                            ConnAfterExit(@, stage[r].pending # "")]
           /\ stage' = [stage EXCEPT ![r].quit = quit, ![r].detail = out.detail]
           /\ ret' = [ret EXCEPT ![r] = out.ret]
    /\ pc' = [pc EXCEPT ![r] = ReturnTo(r)]
    /\ UNCHANGED <<req, local, msg, server, exc, resp, service>>

\* The rest of a handler once the Email Service call is over: the
\* `if success` branches, or the `except Exception` of the handler.
Respond(r) ==
    /\ pc[r] = "respond"
    /\ resp' = [resp EXCEPT ![r] =
                  IF ret[r] = "raised"
                  THEN HandlerExcept(exc[r])
                  ELSE SendResponse(req[r].ep, ret[r] = "true",
                                    local[r].token, stage[r].detail)]
    /\ pc' = [pc EXCEPT ![r] = "idle"]
    /\ UNCHANGED <<req, local, msg, server, conns, stage, ret, exc, service>>

-----------------------------------------------------------------------------
(* Specifications.                                                         *)

\* One thread, every request shape.
Next ==
    \E r \in {MainThread} :
        \/ \E q \in Requests, tok \in Tokens : SendPasswordReset(r, q, tok)
        \/ \E q \in Requests : SendResetSuccess(r, q)
        \/ \E q \in Requests : SendCustomEmail(r, q)
        \/ \E q \in Requests : TestEmail(r, q)
        \/ \E q \in Requests : DirectSendEmail(r, q)
        \/ \E q \in Requests : DirectFacadeCall(r, q)
        \/ \E outcome \in RenderOutcomes : Facade(r, outcome)
        \/ Compose(r)
        \/ \E ok \in BOOLEAN : Connect(r, ok)
        \/ \E ok \in BOOLEAN : Login(r, ok)
        \/ \E ok \in BOOLEAN : SendMessage(r, ok)
        \/ \E quit \in {"ok", "disc", "err"} : WithExit(r, quit)
        \/ Respond(r)

Spec == Init /\ [][Next]_vars

\* All threads at once, on the shared email_service.
NextConc ==
    \E r \in Threads :
        \/ \E q \in ConcRequests, tok \in Tokens : SendPasswordReset(r, q, tok)
        \/ \E q \in ConcRequests : SendResetSuccess(r, q)
        \/ \E q \in ConcRequests : SendCustomEmail(r, q)
        \/ \E q \in ConcRequests : TestEmail(r, q)
        \/ \E q \in ConcRequests : DirectSendEmail(r, q)
        \/ \E q \in ConcRequests : DirectFacadeCall(r, q)
        \/ \E outcome \in RenderOutcomes : Facade(r, outcome)
        \/ Compose(r)
        \/ \E ok \in BOOLEAN : Connect(r, ok)
        \/ \E ok \in BOOLEAN : Login(r, ok)
        \/ \E ok \in BOOLEAN : SendMessage(r, ok)
        \/ \E quit \in {"ok", "disc", "err"} : WithExit(r, quit)
        \/ Respond(r)

SpecConc == Init /\ [][NextConc]_vars


-----------------------------------------------------------------------------
(* Properties.                                                             *)

\* send_email was entered by the current request of r and has returned.
Returned(r) == stage[r].entered /\ pc[r] \in {"respond", "idle"}

\* r handled an HTTP request and the response is out.
Answered(r) == req[r].ep \in Endpoints /\ pc[r] = "idle"

\* The connections opened by thread r for its current request.
ConnsOf(r) == { c \in ConnIds : conns[c].opener = r }

\* A JSON field that is absent, null or empty.
Missing(v) == v \in {Absent, PyNone, PyStrOf("")}

\* C1: every returned call of send_email returned a boolean (no exception
\* left it), and it returned True exactly when connect, login and
\* send_message all completed without error.
C1_ReturnsTrueIffAllStagesOk ==
    \A r \in Threads :
        Returned(r) =>
            /\ ret[r] \in {"true", "false"}
            /\ ret[r] = "true" <=>
                 /\ stage[r].connect = "ok"
                 /\ stage[r].login = "ok"
                 /\ stage[r].send = "ok"

\* C2: once send_email has returned, every connection it opened is closed,
\* also when login or send_message failed.
C2_ConnectionClosedOnReturn ==
    \A r \in Threads :
        pc[r] \in {"respond", "idle"} =>
            \A c \in ConnsOf(r) : conns[c].state = "closed"

C2_Witness ==
    \E r \in Threads :
        /\ Returned(r)
        /\ stage[r].login = "fail"
        /\ server[r] # NoConn
        /\ conns[server[r]].state = "closed"

\* C3: a send-custom-email request with to_email, subject or html_content
\* absent, null or empty never enters send_email and is answered 400 with an
\* error field.
C3_CustomMissingFieldIs400 ==
    \A r \in Threads :
        ( /\ req[r].ep = "custom"
          /\ req[r].kind = "object"
          /\ \E k \in {"to_email", "subject", "html_content"} :
                Missing(req[r].data[k]) )
        => /\ ~stage[r].entered
           /\ pc[r] = "idle"
           /\ resp[r].code = 400
           /\ resp[r].body.error # NoField

\* C4: a send-password-reset or send-reset-success request whose object has
\* email or username absent, null or empty is answered 400 with an error
\* field; no token is generated, no template rendered, no connection opened.
C4_ResetMissingFieldIs400 ==
    \A r \in Threads :
        ( /\ req[r].ep \in {"reset", "success"}
          /\ req[r].kind = "object"
          /\ Missing(req[r].data.email) \/ Missing(req[r].data.username) )
        => /\ pc[r] = "idle"
           /\ resp[r].code = 400
           /\ resp[r].body.error # NoField
           /\ stage[r].tokens = 0
           /\ local[r].token = NoToken
           /\ stage[r].render = "none"
           /\ stage[r].nconnect = 0
           /\ ConnsOf(r) = {}

C4_Witness ==
    \E r \in Threads :
        /\ req[r].ep = "reset"
        /\ req[r].kind = "object"
        /\ req[r].data.email = PyStrOf("a@b.org")
        /\ req[r].data.username = PyStrOf("")
        /\ resp[r].code = 400

\* C5: in a password-reset request with email and username, the reset_url
\* given to send_password_reset_email is <base>?token=<token>&username=
\* <username> for the token generated in the request; the 200 body carries
\* that token, and only a 200 after a successful send carries a token.
C5_ResetUrlAndToken ==
    \A r \in Threads :
        ( /\ req[r].ep = "reset"
          /\ req[r].kind = "object"
          /\ ~Missing(req[r].data.email) /\ ~Missing(req[r].data.username) )
        => /\ stage[r].tokens = 1
           /\ local[r].token \in Tokens
           /\ local[r].reset_url =
                "https://yourapp.com/reset" \o "?token=" \o local[r].token
                    \o "&username=" \o req[r].data.username.s
           /\ resp[r].code = 200 => resp[r].body.token = local[r].token
           /\ resp[r].body.token # NoField =>
                resp[r].code = 200 /\ ret[r] = "true"
           /\ resp[r].code = 500 => resp[r].body.token = NoField

C5_Witness ==
    \E r \in Threads :
        /\ req[r].ep = "reset"
        /\ local[r].reset_url =
             "https://yourapp.com/reset?token=tok-81Bj-nA&username=jdoe"
        /\ resp[r].code = 200
        /\ resp[r].body.token = "tok-81Bj-nA"

\* The fixed error messages of the 500 responses after a failed send.
GenericErrors ==
    {"Failed to send email", "Failed to send success email",
     "Failed to send test email"}

\* C6: when the Email Service operation of a request returned a boolean, the
\* response is 200 with status "sent" exactly when it returned True, and 500
\* with a fixed message that is not the SMTP error when it returned False.
C6_ResponseFollowsBoolean ==
    \A r \in Threads :
        (Answered(r) /\ ret[r] \in {"true", "false"})
        => /\ (resp[r].code = 200 /\ resp[r].body.status = "sent")
                <=> ret[r] = "true"
           /\ ret[r] = "false" =>
                /\ resp[r].code = 500
                /\ resp[r].body.error \in GenericErrors
                /\ resp[r].body.error # stage[r].detail
                /\ resp[r].body.error \notin SmtpErrorDetails

C6_Witness ==
    \E r \in Threads :
        /\ Answered(r)
        /\ req[r].ep = "test"
        /\ ret[r] = "false"
        /\ stage[r].detail = LOGIN_ERROR
        /\ resp[r].code = 500

\* C7: when rendering fails in a facade operation, the operation returns no
\* boolean, send_email is not entered, no connection is opened, and the
\* handler answers 500 with the raw error string as error.
C7_RenderErrorPropagates ==
    \A r \in Threads :
        stage[r].render = "fail"
        => /\ ret[r] = "raised"
           /\ ~stage[r].entered
           /\ stage[r].nconnect = 0
           /\ ConnsOf(r) = {}
           /\ exc[r] \in {"'user' is undefined",
                          IF req[r].ep \in {"reset", "call_reset"}
                          THEN "password_reset.html"
                          ELSE "password_reset_success.html"}
           /\ Answered(r) =>
                /\ resp[r].code = 500
                /\ resp[r].body.error = exc[r]

C7_Witness ==
    \E r \in Threads :
        /\ stage[r].render = "fail"
        /\ pc[r] = "idle"
        /\ resp[r].code = 500
        /\ resp[r].body.error = "password_reset_success.html"

\* C8: a request or send operation attempts at most one connection, one
\* login and one transmission; after a failed connect there is no login or
\* transmission, after a failed login no transmission.
C8_SingleAttempt ==
    \A r \in Threads :
        /\ stage[r].nconnect <= 1
        /\ stage[r].nlogin <= 1
        /\ stage[r].nsend <= 1
        /\ Cardinality(ConnsOf(r)) <= 1
        /\ stage[r].connect = "fail" =>
                stage[r].nlogin = 0 /\ stage[r].nsend = 0 /\ ConnsOf(r) = {}
        /\ stage[r].login = "fail" => stage[r].nsend = 0
        /\ \A c \in ConnsOf(r) : Len(conns[c].carried) <= 1

C8_Witness ==
    \E r \in Threads :
        /\ Answered(r)
        /\ stage[r].connect = "fail"
        /\ stage[r].nconnect = 1
        /\ resp[r].code = 500

\* The message thread r's call of send_email is to build from its arguments.
OwnMsg(r) ==
    [Subject |-> local[r].subject, From |-> ADMIN_EMAIL,
     To |-> local[r].to_email,
     parts |-> (IF Truthy(local[r].text_content)
                THEN << [subtype |-> "plain", content |-> local[r].text_content.s] >>
                ELSE << >>)
               \o << [subtype |-> "html", content |-> local[r].html_content.s] >>]

\* C9: under every interleaving, a connection belongs to one request, carries
\* only the message built from that request's arguments, and a request's
\* boolean is True exactly when its own connection was authenticated,
\* carried its message and was left without error.
C9_NoCrossTalk ==
    /\ \A r1, r2 \in Threads :
          (r1 # r2 /\ server[r1] # NoConn) => server[r1] # server[r2]
    /\ \A c \in ConnIds :
          conns[c].state # "free" =>
              /\ server[conns[c].opener] = c
              /\ \A i \in 1..Len(conns[c].carried) :
                    conns[c].carried[i] = OwnMsg(conns[c].opener)
    /\ \A r \in Threads :
          Returned(r) =>
              ( ret[r] = "true" <=>
                  /\ server[r] # NoConn
                  /\ conns[server[r]].authed
                  /\ conns[server[r]].carried = << OwnMsg(r) >>
                  /\ stage[r].quit \in {"ok", "disc"} )

C9_Witness ==
    \E r1, r2 \in Threads :
        /\ r1 # r2
        /\ pc[r1] = "exit" /\ pc[r2] = "exit"
        /\ conns[server[r1]].carried = << OwnMsg(r1) >>
        /\ conns[server[r2]].carried = << OwnMsg(r2) >>
        /\ OwnMsg(r1) # OwnMsg(r2)

\* C10 as stated: one part when text_content is not given, two parts, plain
\* before HTML, whenever text_content is given.
C10_TwoPartsWhenTextGiven ==
    \A r \in Threads :
        stage[r].composed =>
            /\ local[r].text_content = PyNone => Len(msg[r].parts) = 1
            /\ local[r].text_content # PyNone =>
                  /\ Len(msg[r].parts) = 2
                  /\ msg[r].parts[1].subtype = "plain"
            /\ msg[r].parts[Len(msg[r].parts)].subtype = "html"

\* C10: the message has one part, the HTML part, when text_content is None
\* or empty, and two parts, plain text then HTML, when text_content is a
\* non-empty string; the HTML part is always last.
C10_PartsOfMessage ==
    \A r \in Threads :
        stage[r].composed =>
            LET text == local[r].text_content
                parts == msg[r].parts
            IN  /\ (text = PyNone \/ text = PyStrOf("")) => Len(parts) = 1
                /\ (text.t = "str" /\ text.s # "") =>
                      /\ Len(parts) = 2
                      /\ parts[1] = [subtype |-> "plain", content |-> text.s]
                /\ parts[Len(parts)] =
                      [subtype |-> "html", content |-> local[r].html_content.s]

C10_Witness ==
    \E r \in Threads :
        /\ stage[r].composed
        /\ local[r].text_content = PyStrOf("")
        /\ Len(msg[r].parts) = 1
        /\ msg[r].parts[1].subtype = "html"


\* Two threads called send_email with the same arguments.
SameArguments(r1, r2) ==
    /\ stage[r1].entered /\ stage[r2].entered
    /\ local[r1].to_email = local[r2].to_email
    /\ local[r1].subject = local[r2].subject
    /\ local[r1].html_content = local[r2].html_content
    /\ local[r1].text_content = local[r2].text_content

\* C11: the attributes of the service never change; two calls of send_email
\* with the same arguments, whatever was sent before or meanwhile, compose the
\* same message, connect to the same configured server, and when both
\* transmit there are exactly two transmissions, of identical messages.
C11_RepeatedSendIsIdentical ==
    /\ service = [smtp_server |-> "smtp.gmail.com", smtp_port |-> 465,
                  admin_email |-> ADMIN_EMAIL, admin_password |-> ADMIN_PASSWORD]
    /\ \A c \in ConnIds :
          conns[c].state # "free" =>
              conns[c].host = "smtp.gmail.com" /\ conns[c].port = 465
    /\ \A r1, r2 \in Threads :
          (r1 # r2 /\ SameArguments(r1, r2)) =>
              /\ (stage[r1].composed /\ stage[r2].composed) => msg[r1] = msg[r2]
              /\ (Returned(r1) /\ Returned(r2)) =>
                    stage[r1].composed = stage[r2].composed
              /\ (stage[r1].send = "ok" /\ stage[r2].send = "ok") =>
                    /\ conns[server[r1]].carried = << msg[r1] >>
                    /\ conns[server[r2]].carried = << msg[r1] >>
                    /\ server[r1] # server[r2]
                    /\ Len(conns[server[r1]].carried)
                         + Len(conns[server[r2]].carried) = 2

C11_Witness ==
    \E r1, r2 \in Threads :
        /\ r1 # r2
        /\ req[r1].ep = "custom" /\ req[r2].ep = "custom"
        /\ SameArguments(r1, r2)
        /\ pc[r1] = "idle" /\ pc[r2] = "idle"
        /\ stage[r1].send = "ok" /\ stage[r2].send = "ok"
        /\ conns[server[r1]].carried = << msg[r1] >>
        /\ conns[server[r2]].carried = << msg[r1] >>

\* C12: in every step, a connection is attempted only after the message is
\* composed and before any login; login happens only on the open connection
\* this call opened; a message is transmitted only on that connection, open
\* and logged in, after a successful login; the connection is closed after
\* those steps and nothing happens on it once closed.
C12_StepOrder ==
    [][ \A r \in Threads :
          /\ stage'[r].nconnect > stage[r].nconnect =>
                /\ stage[r].composed /\ msg[r] # NoMsg
                /\ stage[r].nlogin = 0 /\ stage[r].nsend = 0
          /\ stage'[r].nlogin > stage[r].nlogin =>
                /\ stage[r].connect = "ok" /\ stage[r].nsend = 0
                /\ server[r] # NoConn
                /\ conns[server[r]].state = "open"
                /\ conns[server[r]].opener = r
          /\ stage'[r].nsend > stage[r].nsend =>
                /\ stage[r].login = "ok"
                /\ server[r] # NoConn
                /\ conns[server[r]].state = "open"
                /\ conns[server[r]].authed
                /\ conns[server[r]].opener = r
          /\ \A c \in ConnIds :
                /\ Len(conns'[c].carried) > Len(conns[c].carried) =>
                      /\ conns[c].state = "open" /\ conns[c].authed
                      /\ stage[conns[c].opener].login = "ok"
                      /\ server[conns[c].opener] = c
                      /\ conns'[c].carried = << msg[conns[c].opener] >>
                /\ (conns[c].state = "open" /\ conns'[c].state = "closed") =>
                      /\ stage[conns[c].opener].login # "none"
                      /\ stage[conns[c].opener].login = "ok" =>
                            stage[conns[c].opener].send # "none"
                /\ conns[c].state = "closed" =>
                      conns'[c] = conns[c] \/ conns'[c] = FreeConn
      ]_vars

C12_Witness ==
    \E r \in Threads :
        /\ Returned(r)
        /\ stage[r].composed
        /\ stage[r].connect = "ok" /\ stage[r].login = "ok"
        /\ stage[r].send = "ok" /\ stage[r].quit = "ok"
        /\ conns[server[r]].state = "closed"
        /\ conns[server[r]].carried = << msg[r] >>

\* C13: a handler gives no response before it is over and then exactly one,
\* a JSON body with code 200, 400 or 500, for every body and every outcome
\* of the Email Service; whenever the handler body raised, the code is 500
\* and the error is the text of the exception.
C13_AlwaysOneJsonResponse ==
    \A r \in Threads :
        req[r].ep \in Endpoints =>
            /\ pc[r] # "idle" => resp[r] = NoResp
            /\ pc[r] = "idle" =>
                  /\ resp[r].code \in {200, 400, 500}
                  /\ resp[r].code = 200 =>
                        resp[r].body.status = "sent" /\ resp[r].body.error = NoField
                  /\ resp[r].code # 200 => resp[r].body.error # NoField
                  /\ (exc[r] # "" \/ ret[r] = "raised" \/ req[r].kind # "object") =>
                        resp[r].code = 500 /\ resp[r].body.error = exc[r]

C13_Witness ==
    \E r \in Threads :
        /\ req[r].ep = "test"
        /\ req[r].kind = "list"
        /\ pc[r] = "idle"
        /\ resp[r].code = 500
        /\ resp[r].body.error = "'list' object has no attribute 'get'"

=============================================================================
